---- MODULE Spec2Model ----
(***************************************************************************)
(* Model of openai_researcher.py: the two function tools (crawl_urls and   *)
(* extract_urls_from_search) and the Streamlit "Start Research" handler    *)
(* with run_research_process.                                              *)
(*                                                                         *)
(* Python strings are modelled as sequences of lexical pieces (a scheme    *)
(* such as "http://", a word, a punctuation character, a blank), wrapped   *)
(* in a record so that None is a value of the same shape.                  *)
(***************************************************************************)
EXTENDS Integers, Sequences, FiniteSets, TLC

\* ---------------------------------------------------------------- bounds
MaxUrlList == 3      \* longest urls argument handed to crawl_urls
MaxArg == 3          \* largest max_urls argument of either tool
MaxItems == 3        \* longest JSON list in a search payload
MaxLines == 2        \* most lines in the raw text of a payload
MaxWords == 2        \* most whitespace-separated words on one line

\* ------------------------------------------------------- python values
None == [none |-> TRUE, chars |-> <<>>]
Str(cs) == [none |-> FALSE, chars |-> cs]

\* truth value of a str-or-None, as used by `or` and `if`
Truthy(v) == ~v.none /\ v.chars # <<>>

\* a or b
PyOr(a, b) == IF Truthy(a) THEN a ELSE b

Min(a, b) == IF a < b THEN a ELSE b
Max(a, b) == IF a > b THEN a ELSE b

PySliceNoNegative(s, n) == SubSeq(s, 1, Min(Max(n, 0), Len(s)))

\* s[:n] for a list s and an int n (a negative n counts from the end)
PySlice(s, n) ==
    IF n >= 0 THEN SubSeq(s, 1, Min(n, Len(s)))
    ELSE SubSeq(s, 1, Max(0, Len(s) + n))

\* str.split(): the maximal runs of non-blank pieces
RECURSIVE SplitFrom(_, _, _)
SplitFrom(cs, cur, acc) ==
    IF cs = <<>> THEN (IF cur = <<>> THEN acc ELSE Append(acc, cur))
    ELSE IF Head(cs) = " "
         THEN SplitFrom(Tail(cs), <<>>, IF cur = <<>> THEN acc ELSE Append(acc, cur))
         ELSE SplitFrom(Tail(cs), Append(cur, Head(cs)), acc)
Split(cs) == SplitFrom(cs, <<>>, <<>>)

SeqsUpTo(S, n) == UNION {[1..k -> S] : k \in 0..n}

\* ------------------------------------------------------------ crawl_urls
URLS == {"http://a", "http://b"}
UrlLists == SeqsUpTo(URLS, MaxUrlList)
MaxUrlsArgs == (-1)..MaxArg

\* what crawler.arun can hand back for cleaned_html / markdown
PageTexts == {None, Str(<<>>), Str(<<"lorem", " ", "ipsum">>)}
\* result.metadata: None, a dict without "title", a dict with "title"
Metadatas == {[none |-> TRUE, has |-> FALSE, title |-> None],
              [none |-> FALSE, has |-> FALSE, title |-> None],
              [none |-> FALSE, has |-> TRUE, title |-> Str(<<"T">>)]}
\* outcomes of one `await crawler.arun(...)`:
\*   ok     result.success is true
\*   fail   result.success is false
\*   raise  an Exception is raised
\*   cancel a BaseException that is not an Exception (asyncio.CancelledError)
FetchOutcomes ==
    [kind : {"ok"}, cleaned_html : PageTexts, markdown : PageTexts,
     metadata : Metadatas, msg : {None}]
    \cup [kind : {"fail"}, cleaned_html : {None}, markdown : {None},
          metadata : {[none |-> TRUE, has |-> FALSE, title |-> None]}, msg : {None}]
    \cup [kind : {"raise"}, cleaned_html : {None}, markdown : {None},
          metadata : {[none |-> TRUE, has |-> FALSE, title |-> None]},
          msg : {Str(<<"timeout">>)}]
    \cup [kind : {"cancel"}, cleaned_html : {None}, markdown : {None},
          metadata : {[none |-> TRUE, has |-> FALSE, title |-> None]}, msg : {None}]

NoOutcome == [kind |-> "none", cleaned_html |-> None, markdown |-> None,
              metadata |-> [none |-> TRUE, has |-> FALSE, title |-> None], msg |-> None]

AttributeErrorMsg == Str(<<"'NoneType' object has no attribute 'get'">>)

SuccessRecordMarkdownFirst(url, o) ==
    LET content == PyOr(o.markdown, o.cleaned_html)
    IN [url |-> url,
        title |-> IF o.metadata.has THEN o.metadata.title ELSE Str(<<>>),
        content |-> content,
        word_count |-> Len(Split(PyOr(content, Str(<<>>)).chars)),
        success |-> TRUE]

\* the dict appended when result.success is true (lines 76-83)
SuccessRecord(url, o) ==
    LET content == PyOr(o.cleaned_html, o.markdown)
    IN [url |-> url,
        title |-> IF o.metadata.has THEN o.metadata.title ELSE Str(<<>>),
        content |-> content,
        word_count |-> Len(Split(PyOr(content, Str(<<>>)).chars)),
        success |-> TRUE]

\* the dict appended by the else branch and by the per-URL except clause
FailureRecord(url, err) == [url |-> url, error |-> err, success |-> FALSE]

\* the record one loop iteration appends for an outcome that stays in the loop
RecordFor(url, o) ==
    IF o.kind = "ok"
    THEN IF o.metadata.none
         THEN FailureRecord(url, AttributeErrorMsg)  \* metadata.get raises, caught at line 94
         ELSE SuccessRecord(url, o)
    ELSE IF o.kind = "fail"
         THEN FailureRecord(url, Str(<<"Failed to crawl">>))
         ELSE FailureRecord(url, o.msg)

CaughtPerUrlNoRaise(o) == o.kind \notin {"cancel", "raise"}

\* which outcomes the per-URL `except Exception` absorbs
CaughtPerUrl(o) == o.kind # "cancel"

\* [item for item in crawled_content if item.get("success")]
SuccessfulCrawls(cc) == SelectSeq(cc, LAMBDA r : r.success)

\* the dict returned at lines 104-113
BatchResult(utc, cc) ==
    [success |-> TRUE,
     total_urls_attempted |-> Len(utc),
     successful_crawls |-> Len(SuccessfulCrawls(cc)),
     crawled_content |-> cc]

\* the dict returned by the outer except clause (line 117)
ErrorResult == [success |-> FALSE, error |-> Str(<<"error">>)]

NoResult == [success |-> FALSE, pending |-> TRUE]

\* ---------------------------------------------- extract_urls_from_search
\* words of the raw payload text, as sequences of pieces
WordA == <<"http://", "a">>
WordADot == <<"http://", "a", ".">>
WordB == <<"https://", "b">>
WordParenB == <<"(", "https://", "b", ")">>
WordSee == <<"see">>
WORDS == {WordA, WordADot, WordB, WordParenB, WordSee}
Lines == SeqsUpTo(WORDS, MaxWords)
Texts == SeqsUpTo(Lines, MaxLines)

\* a JSON array as the value of an alias field: truthy and unhashable
JsonListValue == [none |-> FALSE, chars |-> <<"x">>, list |-> TRUE]
Hashable(v) == "list" \notin DOMAIN v

\* entries of a parsed payload: objects with the alias fields, or non-objects
DictEntry(u, l, h) == [dict |-> TRUE, url |-> u, link |-> l, href |-> h]
NonDictEntry == [dict |-> FALSE, url |-> None, link |-> None, href |-> None]
ENTRIES == {DictEntry(Str(WordA), None, None),
            DictEntry(None, Str(WordB), None),
            DictEntry(Str(<<>>), None, Str(WordA)),
            DictEntry(Str(WordADot), Str(WordB), None),
            DictEntry(JsonListValue, None, None),
            DictEntry(None, None, None),
            NonDictEntry}
ItemLists == SeqsUpTo(ENTRIES, MaxItems)

\* raw text of a payload that is valid JSON: no bare URL word, or a URL
\* inside a string value ("see http://a. (https://b) see")
JsonTexts == {<< <<WordSee>> >>, << <<WordSee, WordADot, WordParenB, WordSee>> >>}

\* search payloads by what json.loads makes of them
\*   invalid            not JSON (json.JSONDecodeError)
\*   list               a JSON array
\*   dict_results_list  an object whose "results" is an array
\*   dict_no_results    an object without "results"
\*   dict_results_null  an object whose "results" is null or a number
\*   dict_results_dict  an object whose "results" is an object
\*   dict_results_str   an object whose "results" is a string
\*   scalar             a JSON string or number
Payload(k, items, self, text) == [kind |-> k, items |-> items, self |-> self, text |-> text]
Payloads ==
    {Payload("invalid", <<>>, NonDictEntry, t) : t \in Texts}
    \cup {Payload(k, it, NonDictEntry, t) :
            k \in {"list", "dict_results_list"}, it \in ItemLists, t \in JsonTexts}
    \cup {Payload("dict_no_results", <<>>, e, t) :
            e \in ENTRIES \ {NonDictEntry}, t \in JsonTexts}
    \cup {Payload(k, <<>>, NonDictEntry, t) :
            k \in {"dict_results_null", "dict_results_dict", "dict_results_str", "scalar"},
            t \in JsonTexts}
NoPayload == Payload("none", <<>>, NonDictEntry, <<>>)

\* result.get('url') or result.get('link') or result.get('href')
EntryUrl(e) == PyOr(PyOr(e.url, e.link), e.href)

\* the for loop over results (lines 143-148 and 152-157)
RECURSIVE CollectEntries(_, _)
CollectEntries(items, acc) ==
    IF items = <<>> THEN acc
    ELSE LET e == Head(items)
         IN CollectEntries(Tail(items),
                IF e.dict /\ Truthy(EntryUrl(e)) THEN Append(acc, EntryUrl(e)) ELSE acc)

\* the exception `results[:max_urls]` raises when results is a dict:
\* TypeError (unhashable slice) up to Python 3.11, KeyError from 3.12
DictSliceExcs == {"TypeError", "KeyError"}

\* the structured path, lines 136-157: the exception it raises and the urls collected
StructuredParse(p, n, sliceExc) ==
    CASE p.kind = "invalid" -> [exc |-> "JSONDecodeError", urls |-> <<>>]
      [] p.kind \in {"list", "dict_results_list"} ->
            [exc |-> "none", urls |-> CollectEntries(PySlice(p.items, n), <<>>)]
      [] p.kind = "dict_no_results" ->
            [exc |-> "none", urls |-> CollectEntries(PySlice(<<p.self>>, n), <<>>)]
      [] p.kind = "dict_results_null" -> [exc |-> "TypeError", urls |-> <<>>]
      [] p.kind = "dict_results_dict" -> [exc |-> sliceExc, urls |-> <<>>]
      [] OTHER -> [exc |-> "none", urls |-> <<>>]

InnerCatchesJsonOnly(exc) == exc = "JSONDecodeError"

\* except (json.JSONDecodeError, TypeError) at line 159
InnerCatches(exc) == exc \in {"JSONDecodeError", "TypeError"}

OuterCatchesNoKeyError(exc) == exc \in {"JSONDecodeError", "TypeError"}

\* except Exception at line 185
OuterCatches(exc) == exc \in {"JSONDecodeError", "TypeError", "KeyError"}

StripChars == {".", ",", ";", ":", "(", ")", "[", "]", "{", "}"}

\* word.strip('.,;:()[]{}')
RECURSIVE LStrip(_)
LStrip(w) == IF w # <<>> /\ Head(w) \in StripChars THEN LStrip(Tail(w)) ELSE w
RECURSIVE RStrip(_)
RStrip(w) == IF w # <<>> /\ w[Len(w)] \in StripChars
             THEN RStrip(SubSeq(w, 1, Len(w) - 1)) ELSE w
Strip(w) == RStrip(LStrip(w))

\* word.startswith(('http://', 'https://'))
StartsWithHttp(w) == w # <<>> /\ Head(w) \in {"http://", "https://"}

\* 'http' in line
LineHasHttp(line) ==
    \E i \in 1..Len(line) : \E j \in 1..Len(line[i]) : line[i][j] \in {"http://", "https://"}

\* the inner for loop over words (lines 167-171)
RECURSIVE ScanWords(_, _, _)
ScanWords(words, acc, n) ==
    IF words = <<>> THEN acc
    ELSE IF StartsWithHttp(Head(words))
         THEN LET acc2 == Append(acc, Str(Strip(Head(words))))
              IN IF Len(acc2) >= n THEN acc2 ELSE ScanWords(Tail(words), acc2, n)
         ELSE ScanWords(Tail(words), acc, n)

\* the for loop over lines (lines 163-173)
RECURSIVE ScanLines(_, _, _)
ScanLines(lines, acc, n) ==
    IF lines = <<>> THEN acc
    ELSE LET acc2 == IF LineHasHttp(Head(lines)) THEN ScanWords(Head(lines), acc, n) ELSE acc
         IN IF Len(acc2) >= n THEN acc2 ELSE ScanLines(Tail(lines), acc2, n)

DedupKeepAll(us, acc) == us

\* "Remove duplicates while preserving order" (lines 176-181)
RECURSIVE Dedup(_, _)
Dedup(us, acc) ==
    IF us = <<>> THEN acc
    ELSE Dedup(Tail(us),
               IF \E i \in 1..Len(acc) : acc[i] = Head(us) THEN acc ELSE Append(acc, Head(us)))

\* `url not in seen` raises TypeError on an unhashable url
DedupRaises(us) == \E i \in 1..Len(us) : ~Hashable(us[i])

\* the whole call: how it ends, what it returns, which handlers ran
ExtractUrls(p, n, sliceExc) ==
    LET sp == StructuredParse(p, n, sliceExc)
        fellBack == sp.exc # "none" /\ InnerCatches(sp.exc)
        escaped == IF sp.exc # "none" /\ ~fellBack THEN sp.exc ELSE "none"
        collected == IF fellBack THEN ScanLines(p.text, sp.urls, n) ELSE sp.urls
        exc == IF escaped # "none" THEN escaped
               ELSE IF DedupRaises(collected) THEN "TypeError" ELSE "none"
    IN IF exc # "none"
       THEN IF OuterCatches(exc)
            THEN [status |-> "returned", value |-> <<>>, inner |-> sp.exc, outer |-> exc]
            ELSE [status |-> "raised", value |-> <<>>, inner |-> sp.exc, outer |-> exc]
       ELSE [status |-> "returned", value |-> PySlice(Dedup(collected, <<>>), n),
             inner |-> sp.exc, outer |-> "none"]

NoExtract == [status |-> "idle", value |-> <<>>, inner |-> "none", outer |-> "none"]

VARIABLES
    \* Streamlit script / Start Research handler
    openai_api_key, research_topic, phase, initial_report, enhanced_report,
    expander, report_placeholder, download, error_shown, trace,
    \* which tool the research agent is running
    tool,
    \* crawl_urls
    urls, max_urls, urls_to_crawl, crawled_content, idx, cpc, held,
    aenter_calls, aexit_calls, fetched, result, cret,
    \* extract_urls_from_search
    search_results, ex_max, ex_ret

pipeVars == <<openai_api_key, research_topic, phase, initial_report, enhanced_report,
              expander, report_placeholder, download, error_shown, trace>>
crawlVars == <<urls, max_urls, urls_to_crawl, crawled_content, idx, cpc, held,
               aenter_calls, aexit_calls, fetched, result, cret>>
extractVars == <<search_results, ex_max, ex_ret>>
vars == <<pipeVars, tool, crawlVars, extractVars>>

\* ------------------------------------------------- Start Research handler
KEYS == {"", "sk-test"}
TOPICS == {"", "ai news"}
REPORTS == {"report one", "report two"}
NoReport == "None"

\* st.button(..., disabled=button_disabled), line 301
button_disabled == ~(openai_api_key # "" /\ research_topic # "")

Init ==
    /\ openai_api_key = ""
    /\ research_topic = ""
    /\ phase = "Idle"
    /\ initial_report = NoReport
    /\ enhanced_report = NoReport
    /\ expander = NoReport
    /\ report_placeholder = NoReport
    /\ download = NoReport
    /\ error_shown = FALSE
    /\ trace = <<"Idle">>
    /\ tool = "none"
    /\ urls = <<>>
    /\ max_urls = 0
    /\ urls_to_crawl = <<>>
    /\ crawled_content = <<>>
    /\ idx = 1
    /\ cpc = "idle"
    /\ held = FALSE
    /\ aenter_calls = 0
    /\ aexit_calls = 0
    /\ fetched = <<>>
    /\ result = NoOutcome
    /\ cret = NoResult
    /\ search_results = NoPayload
    /\ ex_max = 0
    /\ ex_ret = NoExtract

\* the sidebar text input (lines 24-32)
EnterApiKey(k) ==
    /\ phase = "Idle"
    /\ openai_api_key' = k
    /\ UNCHANGED <<research_topic, phase, initial_report, enhanced_report, expander,
                   report_placeholder, download, error_shown, trace,
                   tool, crawlVars, extractVars>>

\* the topic text input (lines 41-44)
EnterTopic(t) ==
    /\ phase = "Idle"
    /\ research_topic' = t
    /\ UNCHANGED <<openai_api_key, phase, initial_report, enhanced_report, expander,
                   report_placeholder, download, error_shown, trace,
                   tool, crawlVars, extractVars>>

\* the button is pressed: lines 302-313 up to the first await of run_research_process
StartResearch ==
    /\ phase = "Idle"
    /\ ~button_disabled
    /\ openai_api_key # ""
    /\ research_topic # ""
    /\ report_placeholder' = NoReport
    /\ phase' = "Researching"
    /\ trace' = Append(trace, "Researching")
    /\ UNCHANGED <<openai_api_key, research_topic, initial_report, enhanced_report,
                   expander, download, error_shown, tool, crawlVars, extractVars>>

\* Runner.run(research_agent, topic) returns (lines 276-277)
ResearchReturns(r) ==
    /\ phase = "Researching"
    /\ tool = "none"
    /\ initial_report' = r
    /\ phase' = "ShowInitial"
    /\ trace' = Append(trace, "ShowInitial")
    /\ UNCHANGED <<openai_api_key, research_topic, enhanced_report, expander,
                   report_placeholder, download, error_shown, tool, crawlVars, extractVars>>

DisplayInitialSkipped ==
    /\ phase = "ShowInitial"
    /\ phase' = "Elaborating"
    /\ trace' = Append(trace, "Elaborating")
    /\ UNCHANGED <<openai_api_key, research_topic, initial_report, enhanced_report, expander,
                   report_placeholder, download, error_shown, tool, crawlVars, extractVars>>

\* the expander with the initial report, then the elaboration call (lines 280-295)
DisplayInitial ==
    /\ phase = "ShowInitial"
    /\ expander' = initial_report
    /\ phase' = "Elaborating"
    /\ trace' = Append(trace, "Elaborating")
    /\ UNCHANGED <<openai_api_key, research_topic, initial_report, enhanced_report,
                   report_placeholder, download, error_shown, tool, crawlVars, extractVars>>

HandlerExceptSilent ==
    /\ phase' = "Failed"
    /\ trace' = Append(trace, "Failed")
    /\ UNCHANGED <<openai_api_key, research_topic, initial_report, enhanced_report,
                   expander, report_placeholder, download, error_shown>>

\* what the handler does with an exception out of asyncio.run (lines 328-329)
HandlerExcept ==
    /\ error_shown' = TRUE
    /\ phase' = "Failed"
    /\ trace' = Append(trace, "Failed")
    /\ UNCHANGED <<openai_api_key, research_topic, initial_report, enhanced_report,
                   expander, report_placeholder, download>>

\* Runner.run(research_agent, topic) raises
ResearchRaises ==
    /\ phase = "Researching"
    /\ tool = "none"
    /\ HandlerExcept
    /\ UNCHANGED <<tool, crawlVars, extractVars>>

\* Runner.run(elaboration_agent, ...) returns (lines 295-298)
ElaborationReturns(e) ==
    /\ phase = "Elaborating"
    /\ enhanced_report' = e
    /\ phase' = "ShowFinal"
    /\ trace' = Append(trace, "ShowFinal")
    /\ UNCHANGED <<openai_api_key, research_topic, initial_report, expander,
                   report_placeholder, download, error_shown, tool, crawlVars, extractVars>>

ElaborationRaisesFallback ==
    /\ phase = "Elaborating"
    /\ report_placeholder' = initial_report
    /\ download' = initial_report
    /\ phase' = "Done"
    /\ trace' = Append(trace, "Done")
    /\ UNCHANGED <<openai_api_key, research_topic, initial_report, enhanced_report,
                   expander, error_shown, tool, crawlVars, extractVars>>

\* Runner.run(elaboration_agent, ...) raises
ElaborationRaises ==
    /\ phase = "Elaborating"
    /\ HandlerExcept
    /\ UNCHANGED <<tool, crawlVars, extractVars>>

\* the enhanced report is shown and offered for download (lines 316-326)
DisplayFinal ==
    /\ phase = "ShowFinal"
    /\ report_placeholder' = enhanced_report
    /\ download' = enhanced_report
    /\ phase' = "Done"
    /\ trace' = Append(trace, "Done")
    /\ UNCHANGED <<openai_api_key, research_topic, initial_report, enhanced_report,
                   expander, error_shown, tool, crawlVars, extractVars>>

\* the next interaction reruns the script from the top: the page is rebuilt
Rerun ==
    /\ phase \in {"Done", "Failed"}
    /\ phase' = "Idle"
    /\ initial_report' = NoReport
    /\ enhanced_report' = NoReport
    /\ expander' = NoReport
    /\ report_placeholder' = NoReport
    /\ download' = NoReport
    /\ error_shown' = FALSE
    /\ trace' = <<"Idle">>
    /\ UNCHANGED <<openai_api_key, research_topic, tool, crawlVars, extractVars>>

\* ------------------------------------------------------ crawl_urls steps
\* the research agent calls crawl_urls: lines 56-60
CrawlCall ==
    /\ phase = "Researching"
    /\ tool = "none"
    /\ \E us \in UrlLists, m \in MaxUrlsArgs :
          /\ urls' = us
          /\ max_urls' = m
          /\ urls_to_crawl' = PySlice(us, m)
    /\ tool' = "crawl"
    /\ crawled_content' = <<>>
    /\ idx' = 1
    /\ cpc' = "enter"
    /\ UNCHANGED <<held, aenter_calls, aexit_calls, fetched, result, cret, pipeVars, extractVars>>

\* async with AsyncWebCrawler(...) as crawler: __aenter__ succeeds (line 62)
CrawlEnter ==
    /\ tool = "crawl"
    /\ cpc = "enter"
    /\ aenter_calls' = aenter_calls + 1
    /\ held' = TRUE
    /\ cpc' = "loop"
    /\ UNCHANGED <<urls, max_urls, urls_to_crawl, crawled_content, idx, aexit_calls,
                   fetched, result, cret, pipeVars, tool, extractVars>>

\* __aenter__ raises: the outer except returns the error dict (lines 115-117)
CrawlEnterFails ==
    /\ tool = "crawl"
    /\ cpc = "enter"
    /\ aenter_calls' = aenter_calls + 1
    /\ cret' = ErrorResult
    /\ cpc' = "returned"
    /\ UNCHANGED <<urls, max_urls, urls_to_crawl, crawled_content, idx, held, aexit_calls,
                   fetched, result, pipeVars, tool, extractVars>>

\* one iteration of the for loop: lines 63-100
CrawlFetch ==
    /\ tool = "crawl"
    /\ cpc = "loop"
    /\ idx <= Len(urls_to_crawl)
    /\ \E o \in FetchOutcomes :
          /\ fetched' = Append(fetched, o.kind)
          /\ result' = o
          /\ IF CaughtPerUrl(o)
             THEN /\ crawled_content' = Append(crawled_content, RecordFor(urls_to_crawl[idx], o))
                  /\ idx' = idx + 1
                  /\ cpc' = "loop"
             ELSE /\ cpc' = "unwinding"
                  /\ UNCHANGED <<crawled_content, idx>>
    /\ UNCHANGED <<urls, max_urls, urls_to_crawl, held, aenter_calls, aexit_calls, cret,
                   pipeVars, tool, extractVars>>

\* the loop is over: __aexit__ runs, then lines 102-113 build the batch
CrawlExit ==
    /\ tool = "crawl"
    /\ cpc = "loop"
    /\ idx > Len(urls_to_crawl)
    /\ aexit_calls' = aexit_calls + 1
    /\ held' = FALSE
    /\ cret' = BatchResult(urls_to_crawl, crawled_content)
    /\ cpc' = "returned"
    /\ UNCHANGED <<urls, max_urls, urls_to_crawl, crawled_content, idx, aenter_calls,
                   fetched, result, pipeVars, tool, extractVars>>

\* __aexit__ itself raises an Exception: the outer except returns the error dict
CrawlExitFails ==
    /\ tool = "crawl"
    /\ cpc \in {"loop", "unwinding"}
    /\ cpc = "loop" => idx > Len(urls_to_crawl)
    /\ aexit_calls' = aexit_calls + 1
    /\ held' = FALSE
    /\ cret' = ErrorResult
    /\ cpc' = "returned"
    /\ UNCHANGED <<urls, max_urls, urls_to_crawl, crawled_content, idx, aenter_calls,
                   fetched, result, pipeVars, tool, extractVars>>

CrawlUnwindLeak ==
    /\ tool = "crawl"
    /\ cpc = "unwinding"
    /\ cpc' = "raised"
    /\ UNCHANGED <<urls, max_urls, urls_to_crawl, crawled_content, idx, held, aenter_calls,
                   aexit_calls, fetched, result, cret, pipeVars, tool, extractVars>>

\* a BaseException leaves the async with block: __aexit__ runs and the
\* exception passes the outer `except Exception` to the caller
CrawlUnwind ==
    /\ tool = "crawl"
    /\ cpc = "unwinding"
    /\ aexit_calls' = aexit_calls + 1
    /\ held' = FALSE
    /\ cpc' = "raised"
    /\ UNCHANGED <<urls, max_urls, urls_to_crawl, crawled_content, idx, aenter_calls,
                   fetched, result, cret, pipeVars, tool, extractVars>>

\* -------------------------------------------- extract_urls_from_search step
\* the research agent calls extract_urls_from_search: lines 129-187
ExtractCall ==
    /\ phase = "Researching"
    /\ tool = "none"
    /\ \E p \in Payloads, n \in MaxUrlsArgs, sliceExc \in DictSliceExcs :
          /\ search_results' = p
          /\ ex_max' = n
          /\ ex_ret' = ExtractUrls(p, n, sliceExc)
    /\ tool' = "extract"
    /\ UNCHANGED <<pipeVars, crawlVars>>

\* the tool call is over and its locals are gone; the agent goes on
ToolReturn ==
    /\ \/ tool = "crawl" /\ cpc \in {"returned", "raised"}
       \/ tool = "extract"
    /\ tool' = "none"
    /\ urls' = <<>>
    /\ max_urls' = 0
    /\ urls_to_crawl' = <<>>
    /\ crawled_content' = <<>>
    /\ idx' = 1
    /\ cpc' = "idle"
    /\ held' = FALSE
    /\ aenter_calls' = 0
    /\ aexit_calls' = 0
    /\ fetched' = <<>>
    /\ result' = NoOutcome
    /\ cret' = NoResult
    /\ search_results' = NoPayload
    /\ ex_max' = 0
    /\ ex_ret' = NoExtract
    /\ UNCHANGED pipeVars

Next ==
    \/ \E k \in KEYS : EnterApiKey(k)
    \/ \E t \in TOPICS : EnterTopic(t)
    \/ StartResearch
    \/ \E r \in REPORTS : ResearchReturns(r)
    \/ DisplayInitial
    \/ ResearchRaises
    \/ \E e \in REPORTS : ElaborationReturns(e)
    \/ ElaborationRaises
    \/ DisplayFinal
    \/ Rerun
    \/ CrawlCall
    \/ CrawlEnter
    \/ CrawlEnterFails
    \/ CrawlFetch
    \/ CrawlExit
    \/ CrawlExitFails
    \/ CrawlUnwind
    \/ ExtractCall
    \/ ToolReturn

Spec == Init /\ [][Next]_vars

\* ================================================================ claims
Range(f) == {f[i] : i \in DOMAIN f}
CrawlEnded == tool = "crawl" /\ cpc \in {"returned", "raised"}
BatchReturned == tool = "crawl" /\ cpc = "returned" /\ cret.success
SuccessCount(cc) == Cardinality({i \in 1..Len(cc) : cc[i].success})

\* C1 as stated: every returned batch has successful_count = number of
\* records with success = true and total_attempted = number of records =
\* min(len(urls), max_urls).
C1_AsStated ==
    BatchReturned =>
        /\ cret.successful_crawls = SuccessCount(cret.crawled_content)
        /\ cret.total_urls_attempted = Len(cret.crawled_content)
        /\ Len(cret.crawled_content) = Min(Len(urls), max_urls)

\* C1 (amended): every returned batch has successful_count = number of
\* records with success = true and total_attempted = number of records;
\* that number is min(len(urls), max_urls) when max_urls >= 0 and
\* max(0, len(urls) + max_urls) when max_urls is negative.
C1_BatchAccounting ==
    BatchReturned =>
        /\ cret.successful_crawls = SuccessCount(cret.crawled_content)
        /\ cret.total_urls_attempted = Len(cret.crawled_content)
        /\ max_urls >= 0 => Len(cret.crawled_content) = Min(Len(urls), max_urls)
        /\ max_urls < 0 => Len(cret.crawled_content) = Max(0, Len(urls) + max_urls)

C1_Witness ==
    /\ BatchReturned
    /\ Len(urls) = 3
    /\ max_urls = 2
    /\ cret.total_urls_attempted = 2
    /\ cret.successful_crawls = 1

\* C2: a fetch that reports failure or raises an exception never ends the
\* batch: the failing URL gets a record with success = false and an error at
\* its own position, and a call that ended without a cancellation has
\* attempted and recorded every URL of the truncated list, in order.
C2_PerUrlIsolation ==
    tool = "crawl" =>
        /\ \A i \in 1..Len(fetched) :
              fetched[i] \in {"fail", "raise"} =>
                  /\ i <= Len(crawled_content)
                  /\ crawled_content[i].url = urls_to_crawl[i]
                  /\ ~crawled_content[i].success
                  /\ "error" \in DOMAIN crawled_content[i]
        /\ (CrawlEnded /\ aexit_calls > 0 /\ "cancel" \notin Range(fetched)) =>
              /\ Len(fetched) = Len(urls_to_crawl)
              /\ Len(crawled_content) = Len(urls_to_crawl)
              /\ \A i \in 1..Len(urls_to_crawl) : crawled_content[i].url = urls_to_crawl[i]

C2_Witness ==
    /\ BatchReturned
    /\ Len(urls_to_crawl) = 3
    /\ fetched[1] = "ok" /\ fetched[2] = "raise" /\ fetched[3] = "ok"
    /\ cret.crawled_content[1].success
    /\ ~cret.crawled_content[2].success
    /\ cret.crawled_content[3].success

\* C7: in every crawl_urls call the session is entered once and never twice,
\* it is held only while the batch is running, and when the call has ended
\* (batch returned, error returned, or exception propagated) the session is
\* not held and every successful acquisition has been released exactly once.
C7_SessionReleased ==
    tool = "crawl" =>
        /\ aenter_calls <= 1
        /\ aexit_calls <= aenter_calls
        /\ held => (cpc \in {"loop", "unwinding"} /\ aenter_calls = 1 /\ aexit_calls = 0)
        /\ cpc \in {"loop", "unwinding"} => held
        /\ CrawlEnded =>
              /\ ~held
              /\ aenter_calls = 1
              /\ aexit_calls = 0 => (fetched = <<>> /\ cret = ErrorResult)
              /\ fetched # <<>> => aexit_calls = 1
              /\ cret.success => aexit_calls = 1

C7_Witness ==
    /\ tool = "crawl"
    /\ cpc = "raised"
    /\ Len(fetched) = 2
    /\ fetched[2] = "cancel"
    /\ ~held
    /\ aexit_calls = 1

ContentPresent(r) == "content" \in DOMAIN r /\ ~r.content.none
ErrorPresent(r) == "error" \in DOMAIN r /\ ~r.error.none

\* C9 as stated: every appended record satisfies exactly one of (content
\* present and success = true) or (error present and success = false).
C9_AsStated ==
    \A i \in 1..Len(crawled_content) :
        LET r == crawled_content[i]
        IN (ContentPresent(r) /\ r.success) # (ErrorPresent(r) /\ ~r.success)

\* C9 (amended): every appended record is either a success record (success
\* = true, a content field, no error field) or a failure record (success =
\* false, an error, no content field); the content of a success record is
\* cleaned_html when that is non-empty and markdown otherwise, so it is
\* None or empty when the engine returned neither.
C9_RecordShape ==
    /\ \A i \in 1..Len(crawled_content) :
          LET r == crawled_content[i]
          IN IF r.success
             THEN "content" \in DOMAIN r /\ "error" \notin DOMAIN r
             ELSE ErrorPresent(r) /\ "content" \notin DOMAIN r
    /\ (tool = "crawl" /\ cpc = "loop" /\ result.kind = "ok" /\ ~result.metadata.none) =>
          LET r == crawled_content[Len(crawled_content)]
          IN /\ r.success
             /\ r.content = (IF ~result.cleaned_html.none /\ result.cleaned_html.chars # <<>>
                             THEN result.cleaned_html ELSE result.markdown)

C9_Witness ==
    /\ tool = "crawl"
    /\ cpc = "loop"
    /\ result.kind = "ok"
    /\ result.cleaned_html = Str(<<>>)
    /\ result.markdown = None
    /\ crawled_content[Len(crawled_content)].success
    /\ crawled_content[Len(crawled_content)].content = None

\* ---- helpers for the claims about extract_urls_from_search
RECURSIVE Flatten(_)
Flatten(ss) == IF ss = <<>> THEN <<>> ELSE Head(ss) \o Flatten(Tail(ss))

\* the words of the raw text that start with http:// or https://, in reading
\* order, without their surrounding punctuation
HttpTokens(text) ==
    LET ws == SelectSeq(Flatten(text), LAMBDA w : Head(w) \in {"http://", "https://"})
    IN [i \in 1..Len(ws) |->
          Str(SelectSeq(ws[i], LAMBDA c : c \notin StripChars))]

\* the URL each object of a list names (its first non-empty alias), in list order
RECURSIVE EntryUrls(_)
EntryUrls(items) ==
    IF items = <<>> THEN <<>>
    ELSE LET e == Head(items)
             u == IF Truthy(e.url) THEN e.url ELSE IF Truthy(e.link) THEN e.link ELSE e.href
         IN (IF e.dict /\ Truthy(u) THEN <<u>> ELSE <<>>) \o EntryUrls(Tail(items))

\* the URLs of a payload, in the order they appear in it
PayloadUrls(p) ==
    IF p.kind \in {"list", "dict_results_list"} THEN EntryUrls(p.items)
    ELSE IF p.kind = "dict_no_results" THEN EntryUrls(<<p.self>>)
    ELSE HttpTokens(p.text)

FirstIndex(s, x) == CHOOSE i \in 1..Len(s) : s[i] = x /\ \A j \in 1..(i - 1) : s[j] # x

\* the elements of s at their first occurrence
FirstOccurrences(s) ==
    LET keep == {i \in 1..Len(s) : \A j \in 1..(i - 1) : s[j] # s[i]}
        F[k \in 0..Len(s)] ==
            IF k = 0 THEN <<>> ELSE IF k \in keep THEN Append(F[k - 1], s[k]) ELSE F[k - 1]
    IN F[Len(s)]

ExtractDone == tool = "extract"

\* C3: for max_urls >= 0 the returned list has at most max_urls elements,
\* holds no URL twice, holds only URLs of the payload, and lists them in the
\* order of their first appearance in the payload.
C3_BoundedDistinctOrdered ==
    (ExtractDone /\ ex_ret.status = "returned" /\ ex_max >= 0) =>
        LET v == ex_ret.value
            all == PayloadUrls(search_results)
        IN /\ Len(v) <= ex_max
           /\ \A i, j \in 1..Len(v) : i # j => v[i] # v[j]
           /\ \A i \in 1..Len(v) : \E k \in 1..Len(all) : all[k] = v[i]
           /\ \A i, j \in 1..Len(v) : i < j => FirstIndex(all, v[i]) < FirstIndex(all, v[j])

C3_Witness ==
    /\ ExtractDone
    /\ ex_max = 3
    /\ search_results.kind = "invalid"
    /\ HttpTokens(search_results.text) = <<Str(WordA), Str(WordA), Str(WordB), Str(WordA)>>
    /\ ex_ret.value = <<Str(WordA), Str(WordB)>>

\* C8: the call always returns a list and never raises; when an exception
\* reached the outer handler the list is empty, and when an exception was
\* raised on the structured path the list holds only URLs collected from the
\* payload text.
C8_NeverRaises ==
    ExtractDone =>
        /\ ex_ret.status = "returned"
        /\ ex_ret.outer # "none" => ex_ret.value = <<>>
        /\ ex_ret.inner # "none" =>
              \A i \in 1..Len(ex_ret.value) :
                  ex_ret.value[i] \in Range(HttpTokens(search_results.text))

C8_Witness ==
    /\ ExtractDone
    /\ search_results.kind = "dict_results_dict"
    /\ ex_ret.inner = "KeyError"
    /\ ex_ret.outer = "KeyError"
    /\ ex_ret.status = "returned"
    /\ ex_ret.value = <<>>

\* what line scanning yields: the first max_urls http(s) words of the text,
\* stripped, each once
ScanResult(text, n) ==
    IF n <= 0 THEN <<>>
    ELSE FirstOccurrences(SubSeq(HttpTokens(text), 1, Min(n, Len(HttpTokens(text)))))

\* C10 as stated: when the payload is malformed or parses to a JSON string or
\* number, the call returns what line scanning of the payload yields.
C10_AsStated ==
    (ExtractDone /\ search_results.kind \in {"invalid", "scalar"}) =>
        ex_ret.value = ScanResult(search_results.text, ex_max)

\* C10 (amended): when the structured path raises json.JSONDecodeError or
\* TypeError (a malformed payload, or an object whose "results" cannot be
\* sliced) the call returns what line scanning of the payload yields; a
\* payload that parses to a JSON string or number raises nothing and yields
\* an empty list without any scanning.
C10_FallbackOnRaise ==
    ExtractDone =>
        /\ ex_ret.inner \in {"JSONDecodeError", "TypeError"} =>
              /\ ex_ret.outer = "none"
              /\ ex_ret.value = ScanResult(search_results.text, ex_max)
        /\ search_results.kind = "invalid" => ex_ret.inner = "JSONDecodeError"
        /\ search_results.kind = "dict_results_null" => ex_ret.inner = "TypeError"
        /\ search_results.kind = "scalar" => (ex_ret.inner = "none" /\ ex_ret.value = <<>>)

C10_Witness ==
    /\ ExtractDone
    /\ search_results.kind = "dict_results_null"
    /\ ex_ret.inner = "TypeError"
    /\ ex_ret.value = <<Str(WordA)>>

\* ---- claims about the Start Research handler
IsPrefix(a, b) == Len(a) <= Len(b) /\ SubSeq(b, 1, Len(a)) = a
HappyPath == <<"Idle", "Researching", "ShowInitial", "Elaborating", "ShowFinal", "Done">>
ElaborationFailed == phase = "Failed" /\ initial_report # NoReport

\* C4 as stated: when elaboration fails after the research stage produced an
\* initial report, the run does not fail and the initial report is delivered
\* as its result.
C4_AsStated ==
    (initial_report # NoReport /\ enhanced_report = NoReport /\ phase \in {"Failed", "Done"}) =>
        /\ phase = "Done"
        /\ report_placeholder = initial_report

\* C4 (amended): when elaboration fails after the research stage produced an
\* initial report, the run fails: an error is shown, nothing is put in the
\* report placeholder or offered for download, and the initial report stays
\* only in the expander that was shown before elaboration began.
C4_NoFallback ==
    [][(phase = "Elaborating" /\ phase' # "Elaborating" /\ enhanced_report' = NoReport) =>
          /\ phase' = "Failed"
          /\ error_shown'
          /\ report_placeholder' = NoReport
          /\ download' = NoReport
          /\ initial_report' = initial_report
          /\ expander' = initial_report]_vars

C4_Witness ==
    /\ ElaborationFailed
    /\ error_shown
    /\ expander = "report two"

\* C5 as stated: when either stage raises, the run ends in Failed with an
\* error shown and no report on the page: no enhanced report, no download
\* and no partial report.
C5_AsStated ==
    phase = "Failed" =>
        /\ error_shown
        /\ report_placeholder = NoReport
        /\ download = NoReport
        /\ expander = NoReport

\* C5 (amended): when either stage raises, the run ends in Failed with an
\* error shown and no final artifact (no enhanced report, no download); a
\* failure of the research stage leaves no report on the page, a failure of
\* the elaboration stage leaves the initial report in its expander.
C5_FailedNoFinalArtifact ==
    phase = "Failed" =>
        /\ error_shown
        /\ report_placeholder = NoReport
        /\ download = NoReport
        /\ enhanced_report = NoReport
        /\ Len(trace) = 3 => (initial_report = NoReport /\ expander = NoReport)
        /\ Len(trace) = 5 => (initial_report # NoReport /\ expander = initial_report)
        /\ Len(trace) \in {3, 5}

C5_Witness ==
    /\ phase = "Failed"
    /\ trace = <<"Idle", "Researching", "Failed">>
    /\ error_shown
    /\ expander = NoReport

\* C6: the stages of a run happen in the order Idle, Researching,
\* Elaborating, Done: elaboration is running only when the research stage
\* has returned an initial report and that report is on the page, and the
\* final report is on the page only in Done, after elaboration returned it.
C6_StageOrder ==
    /\ trace[Len(trace)] = phase
    /\ \/ IsPrefix(trace, HappyPath)
       \/ (phase = "Failed" /\ IsPrefix(SubSeq(trace, 1, Len(trace) - 1), HappyPath)
           /\ trace[Len(trace) - 1] \in {"Researching", "Elaborating"})
    /\ phase = "Elaborating" => (initial_report # NoReport /\ expander = initial_report)
    /\ expander # NoReport => expander = initial_report
    /\ enhanced_report # NoReport => (phase \in {"ShowFinal", "Done"} /\ expander = initial_report)
    /\ (report_placeholder # NoReport \/ download # NoReport) => phase = "Done"
    /\ phase = "Done" =>
          /\ trace = HappyPath
          /\ enhanced_report # NoReport
          /\ report_placeholder = enhanced_report
          /\ download = enhanced_report

C6_Witness ==
    /\ phase = "Done"
    /\ trace = HappyPath
    /\ expander = "report one"
    /\ report_placeholder = "report two"

====
